---- MODULE Spec2Model ----
(***************************************************************************)
(* Slash-proposal lifecycle of the resolver program.                       *)
(*                                                                         *)
(* resolver_core/src/slash_proposal.rs : the SlashProposal record, its     *)
(*   timing / completion checks, its address derivation and its loader.    *)
(* resolver_program/src/lib.rs : process_instruction, the dispatcher.      *)
(* programs/the-dao-vault/src/adapters/solend.rs : the lending adapter     *)
(*   (deposit, redeem) of the vault.                                       *)
(*                                                                         *)
(* The instruction handlers (propose_slash.rs, veto_slash.rs,              *)
(* execute_slash.rs, delete_slash_proposal.rs,                             *)
(* initialize_ncn_resolver_program_config.rs) are declared by lib.rs but   *)
(* their bodies are not part of the available sources; they are modelled   *)
(* from spec.md sections 4.1 and 4.3 on top of the helpers of              *)
(* slash_proposal.rs.                                                      *)
(***************************************************************************)
EXTENDS Integers, Sequences, FiniteSets, TLC

VARIABLES
    config,     \* the NcnResolverProgramConfig account (durations)
    accounts,   \* ledger: address -> SlashProposal record or NoAccount
    custody,    \* collateral held in the operator's custody account
    slot,       \* Clock::get()?.slot
    history,    \* per address: bookkeeping about the record living there
    last,       \* the last call made to process_instruction and its result
    dispatch,   \* a call of process_instruction looked at on its own
    loading,    \* a call of SlashProposal::load looked at on its own
    lending     \* the lending adapter: its last call, the program it invokes

vars ==
    <<config, accounts, custody, slot, history, last, dispatch, loading,
      lending>>

----------------------------------------------------------------------------
(* Bounds of the model *)

MaxSlot == 3
MaxDuration == 1
MaxAmount == 2
InitCustody == 3

(* Program constants *)

DISCRIMINATOR == 1

ProgramId == "AE7fSUJSGxMzjNxSPpNTemrz9cr26RFue4GwoJ1cuR6f"
OtherProgramId == "11111111111111111111111111111111"

Ncns == {"ncn1"}
Operators == {"operator1"}
Resolvers == {"resolver1"}
Signers == {"slasher_admin", "resolver_admin"}

Triples == [ncn : Ncns, operator : Operators, resolver : Resolvers]

----------------------------------------------------------------------------
(* resolver_core/src/slash_proposal.rs *)

NoAccount == [discriminator |-> 0]

IsProposal(a) == a.discriminator = DISCRIMINATOR

\* Default for SlashProposal; Pubkey::default() is the all-zero key.
SlashProposal_default ==
    [discriminator |-> DISCRIMINATOR,
     operator |-> "11111111111111111111111111111111",
     resolver |-> "11111111111111111111111111111111",
     amount |-> 0,
     capture_slot |-> 0,
     veto_deadline_slot |-> 0,
     completed |-> 0,
     bump |-> 0]

\* SlashProposal::new; the discriminator byte is the one the account data
\* carries in front of the record.
\* Mutants of SlashProposal::new: the two slots stored in each other's
\* field; the record created as completed; the amount left at the 0 of
\* Default.
SlashProposal_new_default_amount(operator, resolver, amt, capture_slot, deadline_slot, bump) ==
    [discriminator |-> DISCRIMINATOR,
     operator |-> operator,
     resolver |-> resolver,
     amount |-> 0,
     capture_slot |-> capture_slot,
     veto_deadline_slot |-> deadline_slot,
     completed |-> 0,
     bump |-> bump]

SlashProposal_new_swapped(operator, resolver, amt, capture_slot, deadline_slot, bump) ==
    [discriminator |-> DISCRIMINATOR,
     operator |-> operator,
     resolver |-> resolver,
     amount |-> amt,
     capture_slot |-> deadline_slot,
     veto_deadline_slot |-> capture_slot,
     completed |-> 0,
     bump |-> bump]

SlashProposal_new_completed(operator, resolver, amt, capture_slot, deadline_slot, bump) ==
    [discriminator |-> DISCRIMINATOR,
     operator |-> operator,
     resolver |-> resolver,
     amount |-> amt,
     capture_slot |-> capture_slot,
     veto_deadline_slot |-> deadline_slot,
     completed |-> 1,
     bump |-> bump]

SlashProposal_new(operator, resolver, amt, capture_slot, deadline_slot, bump) ==
    [discriminator |-> DISCRIMINATOR,
     operator |-> operator,
     resolver |-> resolver,
     amount |-> amt,
     capture_slot |-> capture_slot,
     veto_deadline_slot |-> deadline_slot,
     completed |-> 0,
     bump |-> bump]

\* Mutant of amount(): the getter reads the neighbouring field.
amount_wrong_field(p) == p.veto_deadline_slot

amount(p) == p.amount

\* Mutant of veto_deadline_slot(): the deadline is worked out again from
\* the configuration instead of being read from the record.
veto_deadline_slot_recomputed(p) == p.capture_slot + config.veto_duration

veto_deadline_slot(p) == p.veto_deadline_slot

\* Mutants of check_veto_period_ended: it fails with the error of
\* check_veto_period_not_ended; the deadline slot still counts as inside
\* the veto period.
check_veto_period_ended_other_error(p, current_slot) ==
    IF p.veto_deadline_slot <= current_slot
    THEN "SlashProposalVetoPeriodNotEnded"
    ELSE "Ok"

check_veto_period_ended_strict(p, current_slot) ==
    IF p.veto_deadline_slot < current_slot
    THEN "SlashProposalVetoPeriodEnded"
    ELSE "Ok"

check_veto_period_ended(p, current_slot) ==
    IF veto_deadline_slot(p) <= current_slot
    THEN "SlashProposalVetoPeriodEnded"
    ELSE "Ok"

\* Mutants of check_veto_period_not_ended: the comparison turned round,
\* so that it passes while the veto period runs; the deadline slot itself
\* rejected.
check_veto_period_not_ended_reversed(p, current_slot) ==
    IF p.veto_deadline_slot <= current_slot
    THEN "SlashProposalVetoPeriodNotEnded"
    ELSE "Ok"

check_veto_period_not_ended_inclusive(p, current_slot) ==
    IF p.veto_deadline_slot >= current_slot
    THEN "SlashProposalVetoPeriodNotEnded"
    ELSE "Ok"

check_veto_period_not_ended(p, current_slot) ==
    IF veto_deadline_slot(p) > current_slot
    THEN "SlashProposalVetoPeriodNotEnded"
    ELSE "Ok"

\* Mutants of check_completed: it reads the byte next to completed; it
\* never rejects; it rejects the proposals that are not completed.
check_completed_reads_bump(p) ==
    IF p.bump = 1
    THEN "SlashProposalCompleted"
    ELSE "Ok"

check_completed_never(p) == "Ok"

check_completed_inverted(p) ==
    IF p.completed = 0
    THEN "SlashProposalCompleted"
    ELSE "Ok"

check_completed(p) ==
    IF p.completed = 1
    THEN "SlashProposalCompleted"
    ELSE "Ok"

seeds(ncn, operator, resolver) ==
    <<"slash_proposal", ncn, operator, resolver>>

\* Pubkey::find_program_address is a one-way hash of (seeds, bump,
\* program id); it is modelled as the pair itself, which keeps the one
\* property the program relies on: different inputs give different
\* addresses.  The bump is a function of the seeds.
find_program_address(program_id, ncn, operator, resolver) ==
    LET s == seeds(ncn, operator, resolver) IN
    [pda |-> <<program_id, s>>, bump |-> 255 - Len(s), seeds |-> s]

Addresses ==
    {find_program_address(ProgramId, t.ncn, t.operator, t.resolver).pda :
        t \in Triples}

\* An address derived for a resolver no proposal is made for: what a caller
\* can pass in place of the proposal's address.
OtherAddress ==
    find_program_address(ProgramId, "ncn1", "operator1", "resolver0").pda

Keys == Addresses \cup {OtherAddress}

\* The AccountInfo the runtime hands to the program for the address key:
\* an account that holds a record is owned by the program that created
\* it, one that holds nothing by the system program.
AccountInfo(key, is_writable) ==
    [key |-> key,
     owner |-> IF IsProposal(accounts[key]) THEN ProgramId ELSE OtherProgramId,
     data_is_empty |-> ~IsProposal(accounts[key]),
     data0 |-> accounts[key].discriminator,
     is_writable |-> is_writable]

\* Mutant of load: the data is looked at before the owner.
load_data_before_owner(program_id, slash_proposal, ncn, operator, resolver, expect_writable) ==
    IF slash_proposal.data_is_empty
    THEN "InvalidAccountData"
    ELSE IF slash_proposal.owner # program_id
    THEN "InvalidAccountOwner"
    ELSE IF expect_writable /\ ~slash_proposal.is_writable
    THEN "InvalidAccountData"
    ELSE IF slash_proposal.data0 # DISCRIMINATOR
    THEN "InvalidAccountData"
    ELSE IF slash_proposal.key #
              find_program_address(program_id, ncn, operator, resolver).pda
    THEN "InvalidAccountData"
    ELSE "Ok"

load(program_id, slash_proposal, ncn, operator, resolver, expect_writable) ==
    IF slash_proposal.owner # program_id
    THEN "InvalidAccountOwner"
    ELSE IF slash_proposal.data_is_empty
    THEN "InvalidAccountData"
    ELSE IF expect_writable /\ ~slash_proposal.is_writable
    THEN "InvalidAccountData"
    ELSE IF slash_proposal.data0 # DISCRIMINATOR
    THEN "InvalidAccountData"
    ELSE IF slash_proposal.key #
              find_program_address(program_id, ncn, operator, resolver).pda
    THEN "InvalidAccountData"
    ELSE "Ok"

----------------------------------------------------------------------------
(* Instruction handlers: modelled from spec.md 4.1 / 4.3 *)

Pda(t) == find_program_address(ProgramId, t.ncn, t.operator, t.resolver)

\* The external custody-transfer capability: it fails when the callee
\* reports a failure or when custody does not hold the amount.
TransferSucceeds(amt, transfer_ok) == transfer_ok /\ amt <= custody

\* initialize(veto_duration, delete_duration): once only.
process_initialize_resolver_program_config(veto_duration, delete_duration) ==
    IF config.initialized THEN "AlreadyInitialized" ELSE "Ok"

\* update(new_veto_duration, new_delete_duration) of spec.md 4.1: only the
\* admin of the configuration may call it.  process_instruction has no
\* variant for it (lib.rs:50-118), so it is not part of Next; it is an
\* action of SpecUpdate only.
process_update_config(signer, new_veto_duration, new_delete_duration) ==
    IF ~config.initialized
    THEN "UninitializedAccount"
    ELSE IF signer # "config_admin"
    THEN "Unauthorized"
    ELSE "Ok"

\* Mutant of propose: it does not look at what the address already holds.
process_propose_slash_overwrite(signer, key, t, slash_amount) ==
    IF ~config.initialized
    THEN "UninitializedAccount"
    ELSE IF signer # "slasher_admin"
    THEN "AuthorizationError"
    ELSE IF key # find_program_address(ProgramId, t.ncn, t.operator,
                                       t.resolver).pda
    THEN "IdentityError"
    ELSE IF slash_amount = 0
    THEN "ValidationError"
    ELSE "Ok"

\* propose: authorised caller, address derived from the triple, no record
\* at that address yet, amount > 0.
process_propose_slash(signer, key, t, slash_amount) ==
    IF ~config.initialized
    THEN "UninitializedAccount"
    ELSE IF signer # "slasher_admin"
    THEN "AuthorizationError"
    ELSE IF key # Pda(t).pda
    THEN "IdentityError"
    ELSE IF IsProposal(accounts[key])
    THEN "StateError"
    ELSE IF slash_amount = 0
    THEN "ValidationError"
    ELSE "Ok"

\* veto: the record loads, the caller holds veto authority, the veto
\* period has not ended, the proposal is not completed.
process_veto_slash(signer, info, t) ==
    LET l == load(ProgramId, info, t.ncn, t.operator, t.resolver, TRUE)
        p == accounts[info.key]
    IN  IF l # "Ok" THEN l
        ELSE IF signer # "resolver_admin" THEN "AuthorizationError"
        ELSE IF check_veto_period_ended(p, slot) # "Ok"
        THEN check_veto_period_ended(p, slot)
        ELSE check_completed(p)

\* execute: the record loads, the veto period has ended, the proposal is
\* not completed, and the custody transfer of amount() goes through.
process_execute_slash(info, t, transfer_ok) ==
    LET l == load(ProgramId, info, t.ncn, t.operator, t.resolver, TRUE)
        p == accounts[info.key]
    IN  IF l # "Ok" THEN l
        ELSE IF check_veto_period_not_ended(p, slot) # "Ok"
        THEN check_veto_period_not_ended(p, slot)
        ELSE IF check_completed(p) # "Ok"
        THEN check_completed(p)
        ELSE IF ~TransferSucceeds(amount(p), transfer_ok)
        THEN "TransferError"
        ELSE "Ok"

\* execute gets as far as the custody transfer.
TransferReached(info, t) ==
    /\ load(ProgramId, info, t.ncn, t.operator, t.resolver, TRUE) = "Ok"
    /\ check_veto_period_not_ended(accounts[info.key], slot) = "Ok"
    /\ check_completed(accounts[info.key]) = "Ok"

\* delete: the record loads, it is terminal (the completed latch is set:
\* check_completed rejects it) and the retention window has elapsed.  The
\* record of slash_proposal.rs:11-31 stores no slot of resolution; the
\* window is measured from veto_deadline_slot, the one stored slot that
\* agrees with the scenario of spec.md section 8 (deadline 1100,
\* delete_duration 50: delete fails at 1140 and succeeds at 1150).
process_delete_slash_proposal(info, t) ==
    LET l == load(ProgramId, info, t.ncn, t.operator, t.resolver, TRUE)
        p == accounts[info.key]
    IN  IF l # "Ok" THEN l
        ELSE IF check_completed(p) = "Ok"
        THEN "StateError"
        ELSE IF slot < veto_deadline_slot(p) + config.delete_slash_proposal_duration
        THEN "StateError"
        ELSE "Ok"

----------------------------------------------------------------------------
(* resolver_program/src/lib.rs *)

\* The variants of ResolverInstruction, with the number of payload fields
\* the match arms of process_instruction bind (lib.rs:51-114).  The enum
\* itself lives in resolver_sdk; the tag of a variant is taken to be its
\* position in the order of the match arms, which is also the order of the
\* table of spec.md section 6.
Variants ==
    << [name |-> "InitializeConfig", arity |-> 0],
       [name |-> "InitializeNcnResolverProgramConfig", arity |-> 2],
       [name |-> "InitializeResolver", arity |-> 0],
       [name |-> "InitializeSlasher", arity |-> 0],
       [name |-> "ProposeSlash", arity |-> 1],
       [name |-> "SetResolver", arity |-> 0],
       [name |-> "VetoSlash", arity |-> 0],
       [name |-> "ExecuteSlash", arity |-> 0],
       [name |-> "SlasherDelegateTokenAccount", arity |-> 0],
       [name |-> "SlasherSetAdmin", arity |-> 0],
       [name |-> "SlasherSetSecondaryAdmin", arity |-> 1],
       [name |-> "DeleteSlashProposal", arity |-> 0] >>

\* The tag byte of a variant.
Tag(name) ==
    CASE name = "InitializeConfig" -> 0
      [] name = "InitializeNcnResolverProgramConfig" -> 1
      [] name = "InitializeResolver" -> 2
      [] name = "InitializeSlasher" -> 3
      [] name = "ProposeSlash" -> 4
      [] name = "SetResolver" -> 5
      [] name = "VetoSlash" -> 6
      [] name = "ExecuteSlash" -> 7
      [] name = "SlasherDelegateTokenAccount" -> 8
      [] name = "SlasherSetAdmin" -> 9
      [] name = "SlasherSetSecondaryAdmin" -> 10
      [] name = "DeleteSlashProposal" -> 11

\* Instruction data: the tag followed by the payload fields.
Encode(name, args) == <<Tag(name)>> \o args

DecodeError == [variant |-> "Err", args |-> <<>>]

\* ResolverInstruction::try_from_slice (borsh): the data must start with a
\* known tag and hold exactly the fields of that variant, no byte less and
\* no byte more.
try_from_slice(instruction_data) ==
    IF Len(instruction_data) = 0
    THEN DecodeError
    ELSE IF instruction_data[1] \notin 0..(Len(Variants) - 1)
    THEN DecodeError
    ELSE IF Len(instruction_data) - 1 # Variants[instruction_data[1] + 1].arity
    THEN DecodeError
    ELSE [variant |-> Variants[instruction_data[1] + 1].name,
          args |-> Tail(instruction_data)]

\* Mutant of the match: the SlasherDelegateTokenAccount arm calls the
\* handler of the arm above it, whose log line it already carries.
Handler_copied_arm(instruction) ==
    CASE instruction.variant = "InitializeConfig" -> "process_initialize_config"
      [] instruction.variant = "InitializeNcnResolverProgramConfig" ->
            "process_initialize_resolver_program_config"
      [] instruction.variant = "InitializeResolver" -> "process_initialize_resolver"
      [] instruction.variant = "InitializeSlasher" -> "process_initialize_slasher"
      [] instruction.variant = "ProposeSlash" -> "process_propose_slash"
      [] instruction.variant = "SetResolver" -> "process_set_resolver"
      [] instruction.variant = "VetoSlash" -> "process_veto_slash"
      [] instruction.variant = "ExecuteSlash" -> "process_execute_slash"
      [] instruction.variant = "SlasherDelegateTokenAccount" ->
            "process_execute_slash"
      [] instruction.variant = "SlasherSetAdmin" -> "process_slasher_set_admin"
      [] instruction.variant = "SlasherSetSecondaryAdmin" ->
            "process_slasher_set_secondary_admin"
      [] instruction.variant = "DeleteSlashProposal" ->
            "process_delete_slash_proposal"

\* The match of process_instruction: the handler each variant is given to.
Handler(instruction) ==
    CASE instruction.variant = "InitializeConfig" -> "process_initialize_config"
      [] instruction.variant = "InitializeNcnResolverProgramConfig" ->
            "process_initialize_resolver_program_config"
      [] instruction.variant = "InitializeResolver" -> "process_initialize_resolver"
      [] instruction.variant = "InitializeSlasher" -> "process_initialize_slasher"
      [] instruction.variant = "ProposeSlash" -> "process_propose_slash"
      [] instruction.variant = "SetResolver" -> "process_set_resolver"
      [] instruction.variant = "VetoSlash" -> "process_veto_slash"
      [] instruction.variant = "ExecuteSlash" -> "process_execute_slash"
      [] instruction.variant = "SlasherDelegateTokenAccount" ->
            "process_slasher_delegate_token_account"
      [] instruction.variant = "SlasherSetAdmin" -> "process_slasher_set_admin"
      [] instruction.variant = "SlasherSetSecondaryAdmin" ->
            "process_slasher_set_secondary_admin"
      [] instruction.variant = "DeleteSlashProposal" ->
            "process_delete_slash_proposal"

\* Mutant of process_instruction: the handler's error is dropped.
process_instruction_swallow(program_id, instruction_data, handler_result) ==
    IF program_id # ProgramId
    THEN "IncorrectProgramId"
    ELSE IF try_from_slice(instruction_data) = DecodeError
    THEN "BorshIoError"
    ELSE "Ok"

\* Mutant of process_instruction: the payload is decoded before the program
\* id is looked at.
process_instruction_decode_first(program_id, instruction_data, handler_result) ==
    IF try_from_slice(instruction_data) = DecodeError
    THEN "BorshIoError"
    ELSE IF program_id # ProgramId
    THEN "IncorrectProgramId"
    ELSE IF handler_result # "Ok"
    THEN handler_result
    ELSE "Ok"

\* process_instruction: the program-id check, the decoding of the
\* instruction, then the handler's result, returned unchanged ("?"
\* propagates an Err, the function ends in Ok(())).  handler_result is what
\* the handler the match selects returns for this call.
process_instruction(program_id, instruction_data, handler_result) ==
    IF program_id # ProgramId
    THEN "IncorrectProgramId"
    ELSE IF try_from_slice(instruction_data) = DecodeError
    THEN "BorshIoError"
    ELSE IF handler_result # "Ok"
    THEN handler_result
    ELSE "Ok"

\* Mutant of Invoked: the call goes on after a program id mismatch.
Invoked_any_program(program_id) == TRUE

\* The call gets past the program-id check.
Invoked(program_id) == program_id = ProgramId

\* The handler process_instruction calls, "none" when it returns before
\* the match.
InvokedHandler(program_id, instruction_data) ==
    IF ~Invoked(program_id)
    THEN "none"
    ELSE LET instruction == try_from_slice(instruction_data)
         IN  IF instruction = DecodeError
             THEN "none"
             ELSE Handler(instruction)

ProgramIds == {ProgramId, OtherProgramId}

----------------------------------------------------------------------------
(* programs/the-dao-vault/src/adapters/solend.rs *)

\* What the lending program answers to an invocation.
LendingResults == {"Ok", "InsufficientFunds", "InvalidAccountData"}

\* solana_program::program::invoke_signed of one instruction of the
\* lending program: the invocation made, and the program's answer.
invoke_signed(ix, lending_result) ==
    [invoked |-> <<ix>>, res |-> lending_result]

\* deposit_reserve_liquidity: builds the instruction for liquidity_amount
\* and invokes it; "?" returns the program's error, else Ok(()).
deposit_reserve_liquidity(liquidity_amount, lending_result) ==
    invoke_signed([instruction |-> "deposit_reserve_liquidity",
                   amount |-> liquidity_amount], lending_result)

redeem_reserve_collateral(collateral_amount, lending_result) ==
    invoke_signed([instruction |-> "redeem_reserve_collateral",
                   amount |-> collateral_amount], lending_result)

\* Mutant of deposit: no arm for the amount 0.
deposit_always_invokes(amt, lending_result) ==
    deposit_reserve_liquidity(amt, lending_result)

\* LendingMarket::deposit for SolendAccounts: match amount { 0 => Ok(()),
\* _ => deposit_reserve_liquidity(.., amount) }.
deposit(amt, lending_result) ==
    IF amt = 0
    THEN [invoked |-> <<>>, res |-> "Ok"]
    ELSE deposit_reserve_liquidity(amt, lending_result)

\* LendingMarket::redeem for SolendAccounts.
redeem(amt, lending_result) ==
    IF amt = 0
    THEN [invoked |-> <<>>, res |-> "Ok"]
    ELSE redeem_reserve_collateral(amt, lending_result)

----------------------------------------------------------------------------
(* State machine *)

\* outcome / terminal_slot: how and when the record was resolved;
\* debited: collateral taken from custody on its behalf; transfer_failed:
\* an execute of it has seen the custody transfer fail.
NoHistory ==
    [outcome |-> "none", terminal_slot |-> 0, debited |-> 0,
     transfer_failed |-> FALSE]

\* cpi: whether the call invoked the custody transfer, and how that ended.
NoCall == [op |-> "none", res |-> "Ok", key |-> OtherAddress, cpi |-> "none"]

Call(op, res, key, cpi) == [op |-> op, res |-> res, key |-> key, cpi |-> cpi]

NoDispatch ==
    [program_id |-> ProgramId, data |-> <<>>, outcome |-> "Ok",
     res |-> "pending", handler |-> "pending"]

NoLoading ==
    [info |-> [key |-> OtherAddress, owner |-> OtherProgramId,
               data_is_empty |-> TRUE, data0 |-> 0, is_writable |-> FALSE],
     resolver |-> "resolver1", expect_writable |-> FALSE, res |-> "pending"]

\* log: the invocations the lending program has received so far.
NoLending ==
    [op |-> "none", amount |-> 0, answer |-> "Ok", res |-> "Ok", log |-> <<>>]

\* No configuration, no proposal record, no call made.
InitLedger ==
    /\ config = [initialized |-> FALSE, veto_duration |-> 0,
                 delete_slash_proposal_duration |-> 0]
    /\ accounts = [a \in Keys |-> NoAccount]
    /\ custody = InitCustody
    /\ slot = 0
    /\ history = [a \in Keys |-> NoHistory]
    /\ last = NoCall

Init ==
    /\ InitLedger
    /\ dispatch = NoDispatch
    /\ loading = NoLoading
    /\ lending = NoLending

\* The platform advances the clock.
Tick ==
    /\ slot < MaxSlot
    /\ slot' = slot + 1
    /\ UNCHANGED <<config, accounts, custody, history, last, dispatch, loading, lending>>

InitializeNcnResolverProgramConfig ==
    \E program_id \in ProgramIds, veto_duration \in 0..MaxDuration,
       delete_duration \in 0..MaxDuration :
        LET data == Encode("InitializeNcnResolverProgramConfig",
                           <<veto_duration, delete_duration>>)
            h == process_initialize_resolver_program_config(
                     veto_duration, delete_duration)
            commit == /\ Invoked(program_id)
                      /\ h = "Ok"
                      /\ InvokedHandler(program_id, data) =
                            "process_initialize_resolver_program_config"
        IN  /\ config' = IF commit
                         THEN [initialized |-> TRUE,
                               veto_duration |-> veto_duration,
                               delete_slash_proposal_duration |-> delete_duration]
                         ELSE config
            /\ last' = Call("initialize_config",
                            process_instruction(program_id, data, h),
                            OtherAddress, "none")
            /\ UNCHANGED <<accounts, custody, slot, history, dispatch, loading, lending>>

ProposeSlash ==
    \E program_id \in ProgramIds, signer \in Signers, key \in Keys,
       t \in Triples, slash_amount \in 0..MaxAmount :
        LET data == Encode("ProposeSlash", <<slash_amount>>)
            h == process_propose_slash(signer, key, t, slash_amount)
            commit == /\ Invoked(program_id)
                      /\ h = "Ok"
                      /\ InvokedHandler(program_id, data) = "process_propose_slash"
        IN  /\ accounts' = IF commit
                           THEN [accounts EXCEPT ![key] =
                                    SlashProposal_new(t.operator, t.resolver,
                                        slash_amount, slot,
                                        slot + config.veto_duration,
                                        Pda(t).bump)]
                           ELSE accounts
            /\ history' = IF commit
                          THEN [history EXCEPT ![key] = NoHistory]
                          ELSE history
            /\ last' = Call("propose", process_instruction(program_id, data, h),
                            key, "none")
            /\ UNCHANGED <<config, custody, slot, dispatch, loading, lending>>

VetoSlash ==
    \E program_id \in ProgramIds, signer \in Signers, key \in Keys,
       t \in Triples, is_writable \in BOOLEAN :
        LET data == Encode("VetoSlash", <<>>)
            h == process_veto_slash(signer, AccountInfo(key, is_writable), t)
            commit == /\ Invoked(program_id)
                      /\ h = "Ok"
                      /\ InvokedHandler(program_id, data) = "process_veto_slash"
        IN  /\ accounts' = IF commit
                           THEN [accounts EXCEPT ![key].completed = 1]
                           ELSE accounts
            /\ history' = IF commit
                          THEN [history EXCEPT ![key].outcome = "vetoed",
                                               ![key].terminal_slot = slot]
                          ELSE history
            /\ last' = Call("veto", process_instruction(program_id, data, h),
                            key, "none")
            /\ UNCHANGED <<config, custody, slot, dispatch, loading, lending>>

ExecuteSlash ==
    \E program_id \in ProgramIds, key \in Keys,
       t \in Triples, is_writable \in BOOLEAN, transfer_ok \in BOOLEAN :
        LET info == AccountInfo(key, is_writable)
            data == Encode("ExecuteSlash", <<>>)
            h == process_execute_slash(info, t, transfer_ok)
            commit == /\ Invoked(program_id)
                      /\ h = "Ok"
                      /\ InvokedHandler(program_id, data) = "process_execute_slash"
        IN  /\ custody' = IF commit
                          THEN custody - amount(accounts[key])
                          ELSE custody
            /\ accounts' = IF commit
                           THEN [accounts EXCEPT ![key].completed = 1]
                           ELSE accounts
            /\ history' = IF commit
                          THEN [history EXCEPT
                                  ![key].outcome = "executed",
                                  ![key].terminal_slot = slot,
                                  ![key].debited =
                                      @ + amount(accounts[key])]
                          ELSE IF Invoked(program_id) /\ TransferReached(info, t)
                          THEN [history EXCEPT ![key].transfer_failed = TRUE]
                          ELSE history
            /\ last' = Call("execute", process_instruction(program_id, data, h),
                            key,
                            IF ~Invoked(program_id) \/ ~TransferReached(info, t)
                            THEN "none"
                            ELSE IF h = "Ok" THEN "ok" ELSE "failed")
            /\ UNCHANGED <<config, slot, dispatch, loading, lending>>

DeleteSlashProposal ==
    \E program_id \in ProgramIds, key \in Keys,
       t \in Triples, is_writable \in BOOLEAN :
        LET data == Encode("DeleteSlashProposal", <<>>)
            h == process_delete_slash_proposal(AccountInfo(key, is_writable), t)
            commit == /\ Invoked(program_id)
                      /\ h = "Ok"
                      /\ InvokedHandler(program_id, data) =
                            "process_delete_slash_proposal"
        IN  /\ accounts' = IF commit
                           THEN [accounts EXCEPT ![key] = NoAccount]
                           ELSE accounts
            /\ history' = IF commit
                          THEN [history EXCEPT ![key] = NoHistory]
                          ELSE history
            /\ last' = Call("delete", process_instruction(program_id, data, h),
                            key, "none")
            /\ UNCHANGED <<config, custody, slot, dispatch, loading, lending>>

Next ==
    \/ Tick
    \/ InitializeNcnResolverProgramConfig
    \/ ProposeSlash
    \/ VetoSlash
    \/ ExecuteSlash
    \/ DeleteSlashProposal

Spec == Init /\ [][Next]_vars

----------------------------------------------------------------------------
(* Proposals made and vetoed under a configuration that is updated        *)
(* (spec.md 4.1); execute and the reclaiming of records are left to Spec.  *)

UpdateConfig ==
    \E signer \in {"config_admin", "slasher_admin"},
       new_veto_duration \in 0..MaxDuration,
       new_delete_duration \in 0..MaxDuration :
        LET h == process_update_config(signer, new_veto_duration,
                                       new_delete_duration)
        IN  /\ config' = IF h = "Ok"
                         THEN [config EXCEPT
                                 !.veto_duration = new_veto_duration,
                                 !.delete_slash_proposal_duration =
                                     new_delete_duration]
                         ELSE config
            /\ last' = Call("update_config", h, OtherAddress, "none")
            /\ UNCHANGED <<accounts, custody, slot, history, dispatch, loading, lending>>

NextUpdate ==
    \/ Tick
    \/ InitializeNcnResolverProgramConfig
    \/ ProposeSlash
    \/ VetoSlash
    \/ UpdateConfig

SpecUpdate == Init /\ [][NextUpdate]_vars

----------------------------------------------------------------------------
(* process_instruction on arbitrary instruction data *)

\* The most payload fields a variant carries (veto_duration and
\* delete_slash_proposal_duration, lib.rs:56-59).
MaxArity == 2

Payloads ==
    UNION {[1..n -> 0..MaxDuration] : n \in 0..MaxArity}

\* The data a caller can send: nothing, or a first byte (a tag of the
\* enum or the first value past it) followed by a payload.
InstructionData ==
    {<<>>} \cup {<<tag>> \o args : tag \in 0..Len(Variants), args \in Payloads}

\* What a handler whose body is not described returns.
HandlerResults == {"Ok", "AuthorizationError", "StateError"}

\* One call of process_instruction.  The handler of
\* InitializeNcnResolverProgramConfig acts on config as it does in Spec;
\* the result of every other handler is drawn from HandlerResults.
ProcessInstruction ==
    \E program_id \in ProgramIds, instruction_data \in InstructionData,
       outcome \in HandlerResults :
        LET instruction == try_from_slice(instruction_data)
            handler == InvokedHandler(program_id, instruction_data)
            initializes == handler = "process_initialize_resolver_program_config"
            h == IF initializes
                 THEN process_initialize_resolver_program_config(
                          instruction.args[1], instruction.args[2])
                 ELSE outcome
        IN  /\ config' = IF initializes /\ h = "Ok"
                         THEN [initialized |-> TRUE,
                               veto_duration |-> instruction.args[1],
                               delete_slash_proposal_duration |->
                                   instruction.args[2]]
                         ELSE config
            /\ dispatch' = [program_id |-> program_id,
                            data |-> instruction_data,
                            outcome |-> h,
                            res |-> process_instruction(program_id,
                                                        instruction_data, h),
                            handler |-> handler]
            /\ UNCHANGED <<accounts, custody, slot, history, last, loading, lending>>

NextDispatch == ProcessInstruction

SpecDispatch == Init /\ [][NextDispatch]_vars

----------------------------------------------------------------------------
(* SlashProposal::load on arbitrary accounts *)

\* Account data as far as load reads them: no byte, or a first byte.
AccountData == {<<>>} \cup {<<b>> : b \in 0..(DISCRIMINATOR + 1)}

\* One call of load by the program, on an account of any address, owner,
\* data and writability, for the triple (ncn1, operator1, resolver).
Load ==
    \E key \in Keys, owner \in ProgramIds, data \in AccountData,
       is_writable \in BOOLEAN, expect_writable \in BOOLEAN,
       resolver \in {"resolver1", "resolver0"} :
        LET slash_proposal ==
                [key |-> key,
                 owner |-> owner,
                 data_is_empty |-> Len(data) = 0,
                 data0 |-> IF Len(data) = 0 THEN 0 ELSE data[1],
                 is_writable |-> is_writable]
        IN  /\ loading' = [info |-> slash_proposal,
                           resolver |-> resolver,
                           expect_writable |-> expect_writable,
                           res |-> load(ProgramId, slash_proposal, "ncn1",
                                        "operator1", resolver,
                                        expect_writable)]
            /\ UNCHANGED <<config, accounts, custody, slot, history, last,
                           dispatch, lending>>

NextLoad == Load

SpecLoad == Init /\ [][NextLoad]_vars

----------------------------------------------------------------------------
(* The lending adapter called with arbitrary amounts *)

\* Amounts of at most MaxLiquidity; at most MaxInvocations invocations
\* of the lending program are followed.
MaxLiquidity == 2

MaxInvocations == 3

\* answer is what the lending program returns if it is invoked.
Deposit ==
    \E amt \in 0..MaxLiquidity, answer \in LendingResults :
        LET r == deposit(amt, answer)
        IN  /\ Len(lending.log) < MaxInvocations
            /\ lending' = [op |-> "deposit", amount |-> amt,
                           answer |-> answer, res |-> r.res,
                           log |-> lending.log \o r.invoked]
            /\ UNCHANGED <<config, accounts, custody, slot, history, last,
                           dispatch, loading>>

Redeem ==
    \E amt \in 0..MaxLiquidity, answer \in LendingResults :
        LET r == redeem(amt, answer)
        IN  /\ Len(lending.log) < MaxInvocations
            /\ lending' = [op |-> "redeem", amount |-> amt,
                           answer |-> answer, res |-> r.res,
                           log |-> lending.log \o r.invoked]
            /\ UNCHANGED <<config, accounts, custody, slot, history, last,
                           dispatch, loading>>

NextLending ==
    \/ Deposit
    \/ Redeem

SpecLending == Init /\ [][NextLending]_vars

----------------------------------------------------------------------------
(* Vocabulary of the properties *)

\* Results of a call that does not name an existing proposal of this
\* program by its derived, writable address.
MalformedCall ==
    {"IncorrectProgramId", "InvalidAccountOwner", "InvalidAccountData"}

\* This step is a call of operation op on the account at key (the clock
\* stands still during a call; last' describes the call).
Called(op, key) == slot' = slot /\ last'.op = op /\ last'.key = key

Active(p) == IsProposal(p) /\ p.completed = 0

Slots == 0..(MaxSlot + MaxDuration)

----------------------------------------------------------------------------
(* C1: for an Active proposal the slot veto_deadline_slot belongs to       *)
(* execute: at that slot a veto is rejected and execute passes its timing  *)
(* check; from capture_slot on the veto timing check passes exactly at     *)
(* the slots before veto_deadline_slot, and at no slot do the veto and     *)
(* the execute timing checks both pass.                                    *)
C1_BoundaryBelongsToExecute ==
    [][\A key \in Addresses :
         LET p == accounts[key] IN
         Active(p) =>
           /\ \A s \in Slots :
                /\ ~(/\ check_veto_period_ended(p, s) = "Ok"
                     /\ check_veto_period_not_ended(p, s) = "Ok")
                /\ s >= p.capture_slot =>
                     (check_veto_period_ended(p, s) = "Ok"
                        <=> s < p.veto_deadline_slot)
           /\ check_veto_period_ended(p, p.veto_deadline_slot) # "Ok"
           /\ check_veto_period_not_ended(p, p.veto_deadline_slot) = "Ok"
           /\ (slot = p.veto_deadline_slot /\ Called("veto", key))
                => last'.res # "Ok" /\ accounts' = accounts
           /\ (slot = p.veto_deadline_slot /\ Called("execute", key))
                => last'.res # "SlashProposalVetoPeriodNotEnded"
      ]_vars

\* A veto arrived exactly at the deadline of an Active proposal and was
\* turned down because the veto period had ended.
C1_Witness ==
    /\ last.op = "veto"
    /\ last.res = "SlashProposalVetoPeriodEnded"
    /\ Active(accounts[last.key])
    /\ slot = accounts[last.key].veto_deadline_slot
    /\ slot > accounts[last.key].capture_slot

----------------------------------------------------------------------------
(* C2 as stated: execute before veto_deadline_slot fails and changes       *)
(* nothing; execute at or after veto_deadline_slot on a proposal that is   *)
(* not completed succeeds; execute on a completed proposal is rejected.    *)
C2_AsStated ==
    [][\A key \in Addresses :
         LET p == accounts[key] IN
         (IsProposal(p) /\ Called("execute", key)) =>
           /\ slot < p.veto_deadline_slot =>
                last'.res # "Ok" /\ accounts' = accounts
           /\ (/\ slot >= p.veto_deadline_slot
               /\ p.completed = 0
               /\ last'.res \notin MalformedCall)
                => last'.res = "Ok" /\ accounts'[key].completed = 1
           /\ p.completed = 1 =>
                last'.res # "Ok" /\ accounts' = accounts /\ custody' = custody
      ]_vars

(* C2, amended: as C2, except that execute at or after veto_deadline_slot  *)
(* on a proposal that is not completed succeeds unless the custody         *)
(* transfer it invokes fails.                                              *)
C2_ExecuteOnceAfterDeadline ==
    [][\A key \in Addresses :
         LET p == accounts[key] IN
         (IsProposal(p) /\ Called("execute", key)) =>
           /\ slot < p.veto_deadline_slot =>
                last'.res # "Ok" /\ accounts' = accounts
           /\ (/\ slot >= p.veto_deadline_slot
               /\ p.completed = 0
               /\ last'.res \notin MalformedCall
               /\ last'.cpi # "failed")
                => last'.res = "Ok" /\ accounts'[key].completed = 1
           /\ p.completed = 1 =>
                last'.res # "Ok" /\ accounts' = accounts /\ custody' = custody
      ]_vars

\* An executed proposal on which a second execute was rejected.
C2_Witness ==
    /\ last.op = "execute"
    /\ last.res = "SlashProposalCompleted"
    /\ IsProposal(accounts[last.key])
    /\ history[last.key].outcome = "executed"

----------------------------------------------------------------------------
(* C3: a veto by the veto authority on an existing proposal succeeds       *)
(* exactly when current_slot < veto_deadline_slot and the proposal is not  *)
(* completed; once a proposal is vetoed no execute on it succeeds.         *)
C3_VetoIffInWindow ==
    [][\A key \in Addresses :
         LET p == accounts[key] IN
         /\ (IsProposal(p) /\ Called("veto", key)) =>
              /\ last'.res = "Ok" =>
                   slot < p.veto_deadline_slot /\ p.completed = 0
              /\ (/\ slot < p.veto_deadline_slot
                  /\ p.completed = 0
                  /\ last'.res \notin MalformedCall
                  /\ last'.res # "AuthorizationError")
                   => /\ last'.res = "Ok"
                      /\ accounts'[key].completed = 1
                      /\ custody' = custody
         /\ (history[key].outcome = "vetoed" /\ Called("execute", key)) =>
              /\ last'.res # "Ok"
              /\ accounts' = accounts
              /\ custody' = custody
      ]_vars

\* A vetoed proposal whose veto deadline has passed and on which execute
\* was rejected.
C3_Witness ==
    /\ last.op = "execute"
    /\ last.res = "SlashProposalCompleted"
    /\ history[last.key].outcome = "vetoed"
    /\ slot >= accounts[last.key].veto_deadline_slot

----------------------------------------------------------------------------
(* C4: each triple has at most one Active proposal, and a propose for a    *)
(* triple whose proposal is not resolved fails and leaves the record as    *)
(* it was.                                                                 *)
C4_OneActivePerTriple ==
    [][/\ \A t \in Triples :
            Cardinality({k \in Keys :
                /\ Active(accounts[k])
                /\ accounts[k].operator = t.operator
                /\ accounts[k].resolver = t.resolver}) <= 1
       /\ \A t \in Triples :
            (Active(accounts[Pda(t).pda]) /\ slot' = slot /\ last'.op = "propose")
              => /\ accounts' = accounts
                 /\ last'.key = Pda(t).pda => last'.res # "Ok"
      ]_vars

\* A propose was turned down because the triple's proposal is still
\* Active.
C4_Witness ==
    /\ last.op = "propose"
    /\ last.res = "StateError"
    /\ Active(accounts[last.key])

----------------------------------------------------------------------------
(* C5: an Active proposal is never deleted: a delete on it fails, and no   *)
(* step removes the record while it is Active.                             *)
C5_NoDeleteWhileActive ==
    [][\A key \in Addresses :
         Active(accounts[key]) =>
           /\ IsProposal(accounts'[key])
           /\ Called("delete", key) =>
                last'.res # "Ok" /\ accounts' = accounts
      ]_vars

\* A delete on an Active proposal, past its veto deadline and past the
\* retention window, was turned down.
C5_Witness ==
    /\ last.op = "delete"
    /\ last.res = "StateError"
    /\ Active(accounts[last.key])
    /\ slot >= accounts[last.key].veto_deadline_slot
                 + config.delete_slash_proposal_duration

----------------------------------------------------------------------------
----------------------------------------------------------------------------
(* C7: a record is created with completed = 0, and as long as a record     *)
(* exists its completed byte, once 1, stays 1 through every step.          *)
C7_CompletedLatch ==
    [][\A key \in Keys :
         /\ (~IsProposal(accounts[key]) /\ IsProposal(accounts'[key]))
              => accounts'[key].completed = 0
         /\ (/\ IsProposal(accounts[key])
             /\ accounts[key].completed = 1
             /\ IsProposal(accounts'[key]))
              => accounts'[key].completed = 1
      ]_vars

\* A completed record on which a further propose, veto or execute was
\* tried.
C7_Witness ==
    /\ last.op \in {"propose", "veto", "execute"}
    /\ last.res \in {"StateError", "SlashProposalCompleted"}
    /\ IsProposal(accounts[last.key])
    /\ accounts[last.key].completed = 1

----------------------------------------------------------------------------
(* C8: when the custody transfer invoked by execute fails, the call        *)
(* returns an error, the record and custody stay as they were with         *)
(* completed = 0, and the record still passes the timing and completion    *)
(* checks of execute at every later slot.                                  *)
C8_TransferFailureRetry ==
    [][\A key \in Addresses :
         (Called("execute", key) /\ last'.cpi = "failed") =>
           /\ last'.res # "Ok"
           /\ accounts' = accounts
           /\ custody' = custody
           /\ accounts'[key].completed = 0
           /\ \A s \in slot..MaxSlot :
                /\ check_veto_period_not_ended(accounts'[key], s) = "Ok"
                /\ check_completed(accounts'[key]) = "Ok"
      ]_vars

\* A proposal whose execute first saw the transfer fail and was then
\* executed.
C8_Witness ==
    /\ last.op = "execute"
    /\ last.res = "Ok"
    /\ history[last.key].transfer_failed
    /\ history[last.key].outcome = "executed"
    /\ accounts[last.key].completed = 1

----------------------------------------------------------------------------
(* C9: the collateral taken from custody on behalf of a proposal is 0 or   *)
(* exactly its amount; custody changes only in a successful execute, which *)
(* takes exactly amount, sets completed in the same step and happens on a  *)
(* proposal nothing was taken for before.                                  *)
C9_DebitOnceExactlyAmount ==
    [][/\ \A key \in Keys :
            IsProposal(accounts'[key]) =>
              /\ history'[key].debited \in {0, accounts'[key].amount}
              /\ history'[key].debited # 0 => accounts'[key].completed = 1
       /\ custody' # custody =>
            \E key \in Addresses :
               /\ Called("execute", key)
               /\ last'.res = "Ok"
               /\ custody' = custody - accounts[key].amount
               /\ accounts[key].completed = 0
               /\ accounts'[key].completed = 1
               /\ history[key].debited = 0
               /\ history'[key].debited = accounts[key].amount
      ]_vars

\* An executed proposal: custody is down by its amount, and a further
\* execute on it took nothing.
C9_Witness ==
    /\ last.op = "execute"
    /\ last.res = "SlashProposalCompleted"
    /\ history[last.key].outcome = "executed"
    /\ history[last.key].debited = accounts[last.key].amount
    /\ custody = InitCustody - accounts[last.key].amount

----------------------------------------------------------------------------
(* C10: a record appears only through a successful propose, with           *)
(* capture_slot = current slot and veto_deadline_slot = capture_slot +     *)
(* the configured veto_duration; every existing record has                 *)
(* veto_deadline_slot >= capture_slot.                                     *)
C10_DeadlineFromConfig ==
    [][\A key \in Keys :
         /\ IsProposal(accounts'[key]) =>
              accounts'[key].veto_deadline_slot >= accounts'[key].capture_slot
         /\ (~IsProposal(accounts[key]) /\ IsProposal(accounts'[key])) =>
              /\ Called("propose", key)
              /\ last'.res = "Ok"
              /\ accounts'[key].capture_slot = slot
              /\ accounts'[key].veto_deadline_slot =
                    accounts'[key].capture_slot + config.veto_duration
      ]_vars

\* A proposal made at a slot after 0 under a veto_duration above 0.
C10_Witness ==
    /\ last.op = "propose"
    /\ last.res = "Ok"
    /\ config.veto_duration > 0
    /\ accounts[last.key].capture_slot = slot
    /\ slot > 0
    /\ accounts[last.key].veto_deadline_slot = slot + config.veto_duration

----------------------------------------------------------------------------
(* C11: a configuration update leaves every existing proposal as it was:   *)
(* its record, the deadline its getter returns and the outcome of both     *)
(* timing checks at every slot are the same after the update as before,    *)
(* and custody is untouched; a proposal created afterwards gets            *)
(* capture_slot + the veto_duration in force when it is created.           *)
C11_UpdateLeavesProposals ==
    [][/\ (slot' = slot /\ last'.op = "update_config") =>
            /\ accounts' = accounts
            /\ custody' = custody
            /\ \A key \in Addresses :
                 IsProposal(accounts[key]) =>
                   /\ (veto_deadline_slot(accounts[key]))' =
                          accounts[key].veto_deadline_slot
                   /\ \A s \in Slots :
                        /\ (check_veto_period_ended(accounts[key], s))' =
                               check_veto_period_ended(accounts[key], s)
                        /\ (check_veto_period_not_ended(accounts[key], s))' =
                               check_veto_period_not_ended(accounts[key], s)
       /\ \A key \in Keys :
            (~IsProposal(accounts[key]) /\ IsProposal(accounts'[key])) =>
               (veto_deadline_slot(accounts[key]))' = slot + config.veto_duration
      ]_vars

\* The configuration was updated while an Active proposal existed, and the
\* veto_duration now in force is not the one the proposal was made under.
C11_Witness ==
    /\ last.op = "update_config"
    /\ last.res = "Ok"
    /\ \E key \in Addresses :
         /\ Active(accounts[key])
         /\ accounts[key].veto_deadline_slot #
               accounts[key].capture_slot + config.veto_duration

----------------------------------------------------------------------------
(* C12: a propose of amount 0 fails with the validation error and creates  *)
(* no record (no account changes in that call); a propose that succeeds    *)
(* stores the amount it was given, and in every state every proposal       *)
(* record has amount() > 0.                                                 *)
C12_NoZeroAmountRecord ==
    [][/\ (slot' = slot /\ last'.op = "propose" /\ last'.res = "ValidationError")
            => accounts' = accounts
       /\ \A key \in Keys :
            IsProposal(accounts'[key]) =>
               /\ (amount(accounts[key]))' > 0
               /\ accounts'[key].amount \in 1..MaxAmount
      ]_vars

\* A propose was rejected for its amount of 0: the address it named is
\* the derived one and holds no record after the call.
C12_Witness ==
    /\ last.op = "propose"
    /\ last.res = "ValidationError"
    /\ last.key \in Addresses
    /\ ~IsProposal(accounts[last.key])
    /\ config.initialized

----------------------------------------------------------------------------
----------------------------------------------------------------------------
(* C14: a call whose program id is not the declared one fails with         *)
(* IncorrectProgramId whatever its data is, malformed data included, runs  *)
(* no handler and changes nothing; a call with the declared program id     *)
(* and data that do not decode fails and runs no handler either.            *)
C14_ProgramIdCheckedFirst ==
    [][dispatch' # dispatch =>
          /\ dispatch'.program_id # ProgramId =>
                /\ dispatch'.res = "IncorrectProgramId"
                /\ dispatch'.handler = "none"
                /\ UNCHANGED <<config, accounts, custody>>
          /\ (/\ dispatch'.program_id = ProgramId
              /\ try_from_slice(dispatch'.data) = DecodeError) =>
                /\ dispatch'.res \notin {"Ok", "IncorrectProgramId"}
                /\ dispatch'.handler = "none"
                /\ UNCHANGED <<config, accounts, custody>>
      ]_vars

\* A call with a foreign program id and data that do not decode was
\* rejected for its program id.
C14_Witness ==
    /\ dispatch.program_id # ProgramId
    /\ dispatch.res = "IncorrectProgramId"
    /\ dispatch.data # <<>>
    /\ try_from_slice(dispatch.data) = DecodeError

----------------------------------------------------------------------------
(* C15: for data that decode, process_instruction calls one handler, the   *)
(* one of the decoded variant: no other variant is given the same handler, *)
(* so the 12 variants have 12 handlers; it returns the handler's error as  *)
(* it is when the handler fails and Ok when the handler succeeds.           *)
C15_OneHandlerPerVariant ==
    LET instruction == try_from_slice(dispatch.data)
    IN  (/\ dispatch.res # "pending"
         /\ dispatch.program_id = ProgramId
         /\ instruction # DecodeError) =>
            /\ dispatch.handler = Handler(instruction)
            /\ dispatch.handler # "none"
            /\ \A i \in 1..Len(Variants) :
                 Variants[i].name # instruction.variant =>
                    Handler([variant |-> Variants[i].name, args |-> <<>>])
                        # dispatch.handler
            /\ Cardinality({Handler([variant |-> Variants[i].name,
                                     args |-> <<>>]) : i \in 1..Len(Variants)})
                  = 12
            /\ dispatch.res = dispatch.outcome

\* SlasherDelegateTokenAccount was decoded and its handler failed: the
\* caller got that handler's error.
C15_Witness ==
    /\ dispatch.program_id = ProgramId
    /\ dispatch.data = Encode("SlasherDelegateTokenAccount", <<>>)
    /\ dispatch.handler = "process_slasher_delegate_token_account"
    /\ dispatch.res = "StateError"

----------------------------------------------------------------------------
(* C16 as stated: check_veto_period_not_ended returns Ok exactly while     *)
(* current_slot < veto_deadline_slot.                                       *)
C16_AsStated ==
    \A key \in Addresses :
       IsProposal(accounts[key]) =>
          \A s \in Slots :
             (check_veto_period_not_ended(accounts[key], s) = "Ok")
                <=> s < accounts[key].veto_deadline_slot

(* C16: check_veto_period_not_ended returns Ok exactly when current_slot   *)
(* >= veto_deadline_slot and SlashProposalVetoPeriodNotEnded otherwise; it *)
(* is the timing precondition of execute, not of veto: an execute that     *)
(* succeeds passes it, a veto that succeeds does not.                      *)
C16_NotEndedGuardsExecute ==
    [][\A key \in Addresses :
         IsProposal(accounts[key]) =>
           /\ \A s \in Slots :
                check_veto_period_not_ended(accounts[key], s) =
                   IF s >= accounts[key].veto_deadline_slot
                   THEN "Ok"
                   ELSE "SlashProposalVetoPeriodNotEnded"
           /\ (Called("execute", key) /\ last'.res = "Ok") =>
                check_veto_period_not_ended(accounts[key], slot) = "Ok"
           /\ (Called("veto", key) /\ last'.res = "Ok") =>
                check_veto_period_not_ended(accounts[key], slot) # "Ok"
      ]_vars

\* An execute one slot before the deadline was turned away by the check.
C16_Witness ==
    /\ last.op = "execute"
    /\ last.res = "SlashProposalVetoPeriodNotEnded"
    /\ Active(accounts[last.key])
    /\ slot + 1 = accounts[last.key].veto_deadline_slot

----------------------------------------------------------------------------
(* C17: load returns Ok exactly for an account that is owned by the        *)
(* program, has data, is writable when that is expected, starts with the   *)
(* byte 1 and lies at the address derived for (ncn, operator, resolver);   *)
(* every other account gets an error, InvalidAccountOwner exactly when the *)
(* owner is wrong, whatever else is wrong with it.                          *)
C17_LoadAcceptsIff ==
    LET a == loading.info
        accepted ==
            /\ a.owner = ProgramId
            /\ ~a.data_is_empty
            /\ (loading.expect_writable => a.is_writable)
            /\ a.data0 = 1
            /\ a.key = find_program_address(ProgramId, "ncn1", "operator1",
                                            loading.resolver).pda
    IN  loading.res # "pending" =>
          /\ (loading.res = "Ok") <=> accepted
          /\ ~accepted =>
                loading.res \in {"InvalidAccountOwner", "InvalidAccountData"}
          /\ (loading.res = "InvalidAccountOwner") <=> (a.owner # ProgramId)

\* An account of another owner that also has no data was turned away for
\* its owner.
C17_Witness ==
    /\ loading.res = "InvalidAccountOwner"
    /\ loading.info.owner = OtherProgramId
    /\ loading.info.data_is_empty
    /\ loading.expect_writable
    /\ ~loading.info.is_writable

----------------------------------------------------------------------------
----------------------------------------------------------------------------
(* C19: for every proposal record and every slot exactly one of            *)
(* check_veto_period_ended and check_veto_period_not_ended returns Ok, the *)
(* first iff the slot is before veto_deadline_slot, the second iff it is   *)
(* at or after it; the first fails with SlashProposalVetoPeriodEnded only, *)
(* the second with SlashProposalVetoPeriodNotEnded only.  So an Active     *)
(* proposal passes the timing check of exactly one of veto and execute at  *)
(* the current slot: the veto authority's veto goes through, or execute    *)
(* gets as far as the custody transfer.                                     *)
C19_ExactlyOneTimingGuard ==
    \A key \in Addresses :
       LET p == accounts[key] IN
       IsProposal(p) =>
          /\ \A s \in Slots :
               LET e == check_veto_period_ended(p, s)
                   n == check_veto_period_not_ended(p, s)
               IN  /\ (e = "Ok") <=> (s < p.veto_deadline_slot)
                   /\ (n = "Ok") <=> (s >= p.veto_deadline_slot)
                   /\ (e = "Ok") # (n = "Ok")
                   /\ e \in {"Ok", "SlashProposalVetoPeriodEnded"}
                   /\ n \in {"Ok", "SlashProposalVetoPeriodNotEnded"}
          /\ Active(p) =>
               \A t \in Triples :
                  key = Pda(t).pda =>
                     (process_veto_slash("resolver_admin",
                                         AccountInfo(key, TRUE), t) = "Ok")
                       # TransferReached(AccountInfo(key, TRUE), t)

\* A veto came too late for a proposal that is past its deadline and
\* still Active: an execute of it would now go through.
C19_Witness ==
    /\ last.op = "veto"
    /\ last.res = "SlashProposalVetoPeriodEnded"
    /\ Active(accounts[last.key])
    /\ slot > accounts[last.key].veto_deadline_slot
    /\ \E t \in Triples :
         process_execute_slash(AccountInfo(last.key, TRUE), t, TRUE) = "Ok"

----------------------------------------------------------------------------
(* C20: the completed byte of every proposal record is 0 or 1, 1 exactly   *)
(* when the proposal has been vetoed or executed; check_completed returns  *)
(* SlashProposalCompleted for exactly those records and Ok for the others, *)
(* the record of Default included.                                          *)
C20_CompletedIsBoolean ==
    /\ SlashProposal_default.completed = 0
    /\ check_completed(SlashProposal_default) = "Ok"
    /\ \A key \in Keys :
         LET p == accounts[key] IN
         IsProposal(p) =>
            /\ p.completed \in {0, 1}
            /\ (p.completed = 1) <=>
                  (history[key].outcome \in {"vetoed", "executed"})
            /\ check_completed(p) =
                  IF history[key].outcome \in {"vetoed", "executed"}
                  THEN "SlashProposalCompleted"
                  ELSE "Ok"

\* A proposal has just been vetoed: its byte is 1 and check_completed
\* rejects it.
C20_Witness ==
    \E key \in Addresses :
       /\ IsProposal(accounts[key])
       /\ history[key].outcome = "vetoed"
       /\ accounts[key].completed = 1
       /\ check_completed(accounts[key]) = "SlashProposalCompleted"
       /\ last.op = "veto"
       /\ last.res = "Ok"

----------------------------------------------------------------------------
(* C21: deposit(0) and redeem(0) return Ok and the lending program         *)
(* receives no invocation; deposit(n) and redeem(n) with n > 0 add exactly *)
(* one invocation, deposit_reserve_liquidity resp.                         *)
(* redeem_reserve_collateral with amount n, and return what the lending    *)
(* program answers, its error when it fails.                               *)
C21_ZeroAmountSkipsLending ==
    [][lending' # lending =>
          /\ lending'.op \in {"deposit", "redeem"}
          /\ lending'.amount = 0 =>
                /\ lending'.res = "Ok"
                /\ lending'.log = lending.log
          /\ lending'.amount > 0 =>
                /\ lending'.log =
                      Append(lending.log,
                             [instruction |->
                                  IF lending'.op = "deposit"
                                  THEN "deposit_reserve_liquidity"
                                  ELSE "redeem_reserve_collateral",
                              amount |-> lending'.amount])
                /\ lending'.res = lending'.answer
      ]_vars

\* A deposit of 0 came back Ok although the lending program would have
\* failed; the one invocation the lending program has seen is an earlier
\* redeem.
C21_Witness ==
    /\ lending.op = "deposit"
    /\ lending.amount = 0
    /\ lending.answer # "Ok"
    /\ lending.res = "Ok"
    /\ Len(lending.log) = 1
    /\ lending.log[1].instruction = "redeem_reserve_collateral"

====
